---- MODULE Spec2Model ----
(***************************************************************************)
(* Model of the css-blocks glimmer "classnames" helper                     *)
(* (packages/glimmer-templates/src/helpers/classnames.ts, lines 1-215).    *)
(*                                                                         *)
(* The helper decodes a flat argument array ("stack") left to right with   *)
(* Array.shift: first the source expressions, which set style flags, then  *)
(* the output expressions, boolean formulas over those flags that guard    *)
(* one class name each.                                                    *)
(*                                                                         *)
(* Values of the untyped array are records [k, n, s]: k is the JavaScript  *)
(* kind ("num", "str", "bool", "undef"), n the number (or 0/1 of a         *)
(* boolean), s the text of a string.  Numbers are integers; NaN and        *)
(* fractions are outside the model.                                        *)
(***************************************************************************)
EXTENDS Integers, Sequences, FiniteSets

VARIABLES
  stack,         \* the argument array, consumed from the front by shift()
  sources,       \* let sources: boolean[]: the indexes whose entry is true
  classes,       \* let classes: string[]
  nSources,      \* let nSources
  nOutputs,      \* let nOutputs
  canSetSource,  \* let canSetSource
  pc,            \* position in _classnames (or in the function under call)
  result,        \* the string returned by _classnames
  boolResult,    \* the value returned by a direct call of boolExpr
  last,          \* history: the arguments and outcome of the latest call
  decl           \* history: what the rewriter encoded into the array

vars == <<stack, sources, classes, nSources, nOutputs, canSetSource,
          pc, result, boolResult, last, decl>>

----------------------------------------------------------------------------
(* JavaScript values *)

Num(n) == [k |-> "num", n |-> n, s |-> ""]
Str(s) == [k |-> "str", n |-> 0, s |-> s]
Bool(b) == [k |-> "bool", n |-> IF b THEN 1 ELSE 0, s |-> ""]
Undef == [k |-> "undef", n |-> 0, s |-> ""]

Digits == <<"0", "1", "2", "3", "4", "5", "6", "7", "8", "9">>

RECURSIVE NatToString(_)
NatToString(n) ==
  IF n < 10 THEN Digits[n + 1]
  ELSE NatToString(n \div 10) \o Digits[(n % 10) + 1]

(* Number.prototype.toString / String.prototype.toString /                 *)
(* Boolean.prototype.toString, as called by v.shift().toString()           *)
toString(v) ==
  CASE v.k = "num" -> IF v.n < 0 THEN "-" \o NatToString(0 - v.n)
                      ELSE NatToString(v.n)
    [] v.k = "str" -> v.s
    [] v.k = "bool" -> IF v.n = 1 THEN "true" ELSE "false"

(* JavaScript truthiness, the !!x and !x of the source *)
Truthy(v) ==
  CASE v.k = "num" -> v.n # 0
    [] v.k = "str" -> v.s # ""
    [] v.k = "bool" -> v.n = 1
    [] v.k = "undef" -> FALSE

----------------------------------------------------------------------------
(* Cursor primitives.  Each returns [ok, v, rest]: ok = FALSE is a thrown  *)
(* Error, v the value returned, rest the array after the shift.            *)

(* const e = (m) => { throw new Error(m); }                                *)
e(v) == [ok |-> FALSE, n |-> 0, rest |-> v]

(* v.length === 0 ? 0 : the number test *)
numberZeroAtEnd(v) ==
  IF Len(v) = 0 THEN [ok |-> TRUE, n |-> 0, rest |-> v]
  ELSE IF Head(v).k = "num"
       THEN [ok |-> TRUE, n |-> Head(v).n, rest |-> Tail(v)]
       ELSE e(v)

(* typeof v[0] === "number" ? v.shift() : e(...) *)
number(v) ==
  IF Len(v) > 0 /\ Head(v).k = "num"
  THEN [ok |-> TRUE, n |-> Head(v).n, rest |-> Tail(v)]
  ELSE e(v)

(* v.shift().toString(): shift of an empty array is undefined, and         *)
(* undefined.toString() throws a TypeError                                 *)
string(v) ==
  IF Len(v) = 0 THEN [ok |-> FALSE, s |-> "", rest |-> v]
  ELSE IF Head(v).k = "undef" THEN [ok |-> FALSE, s |-> "", rest |-> Tail(v)]
  ELSE [ok |-> TRUE, s |-> toString(Head(v)), rest |-> Tail(v)]

(* truthyString without the "&& s !== 0" *)
truthyStringZeroAbsent(v) ==
  IF Len(v) = 0 THEN [ok |-> TRUE, present |-> FALSE, s |-> "", rest |-> v]
  ELSE IF ~Truthy(Head(v))
       THEN [ok |-> TRUE, present |-> FALSE, s |-> "", rest |-> Tail(v)]
       ELSE [ok |-> TRUE, present |-> TRUE, s |-> toString(Head(v)),
             rest |-> Tail(v)]

(* let s = v.shift(); if (!s && s !== 0) return; return s.toString();      *)
(* present = FALSE is the undefined return value                           *)
truthyString(v) ==
  IF Len(v) = 0 THEN [ok |-> TRUE, present |-> FALSE, s |-> "", rest |-> v]
  ELSE IF ~Truthy(Head(v)) /\ Head(v) # Num(0)
       THEN [ok |-> TRUE, present |-> FALSE, s |-> "", rest |-> Tail(v)]
       ELSE [ok |-> TRUE, present |-> TRUE, s |-> toString(Head(v)),
             rest |-> Tail(v)]

(* !!v.shift() *)
bool(v) ==
  IF Len(v) = 0 THEN [ok |-> TRUE, b |-> FALSE, rest |-> v]
  ELSE [ok |-> TRUE, b |-> Truthy(Head(v)), rest |-> Tail(v)]

----------------------------------------------------------------------------
(* boolExpr: the output boolean expressions.  isSourceSet is (n) =>        *)
(* sources[n]; sources is modelled as the set of indexes whose entry is    *)
(* true, and the undefined of a missing entry as FALSE (only its           *)
(* truthiness is ever used).  Results are [ok, b, rest].                   *)

isSourceSet(src, n) == n \in src

RECURSIVE boolExpr(_, _), AndLoop(_, _, _, _), OrLoop(_, _, _, _)

(* result = false at the start of the "and" loop *)
AndStartFalse == FALSE

(* result = true (line 198) and result = false (line 206) *)
AndStart == TRUE
OrStart == FALSE

(* the "and" loop stopping at the first false operand *)
AndLoopShortCircuit(v, nAnds, res, src) ==
  IF nAnds > 0 /\ res
  THEN LET r == boolExpr(v, src) IN
       IF r.ok THEN AndLoop(r.rest, nAnds - 1, res /\ r.b, src)
       ELSE [ok |-> FALSE, b |-> FALSE, rest |-> r.rest]
  ELSE [ok |-> TRUE, b |-> res, rest |-> v]

(* while (nAnds-- > 0) { nextResult = boolExpr(..); result = result && nextResult } *)
AndLoop(v, nAnds, res, src) ==
  IF nAnds > 0
  THEN LET r == boolExpr(v, src) IN
       IF r.ok THEN AndLoop(r.rest, nAnds - 1, res /\ r.b, src)
       ELSE [ok |-> FALSE, b |-> FALSE, rest |-> r.rest]
  ELSE [ok |-> TRUE, b |-> res, rest |-> v]

(* the "or" loop combining its operands with && *)
OrLoopConjoining(v, nOrs, res, src) ==
  IF nOrs > 0
  THEN LET r == boolExpr(v, src) IN
       IF r.ok THEN OrLoop(r.rest, nOrs - 1, res /\ r.b, src)
       ELSE [ok |-> FALSE, b |-> FALSE, rest |-> r.rest]
  ELSE [ok |-> TRUE, b |-> res, rest |-> v]

(* while (nOrs-- > 0) { nextResult = boolExpr(..); result = result || nextResult } *)
OrLoop(v, nOrs, res, src) ==
  IF nOrs > 0
  THEN LET r == boolExpr(v, src) IN
       IF r.ok THEN OrLoop(r.rest, nOrs - 1, res \/ r.b, src)
       ELSE [ok |-> FALSE, b |-> FALSE, rest |-> r.rest]
  ELSE [ok |-> TRUE, b |-> res, rest |-> v]

boolExpr(v, src) ==
  LET type == number(v) IN
  IF ~type.ok THEN [ok |-> FALSE, b |-> FALSE, rest |-> type.rest]
  ELSE CASE type.n = -1 ->
              LET r == boolExpr(type.rest, src) IN
              [ok |-> r.ok, b |-> r.ok /\ ~r.b, rest |-> r.rest]
         [] type.n = -3 ->
              LET nAnds == number(type.rest) IN
              IF ~nAnds.ok THEN [ok |-> FALSE, b |-> FALSE, rest |-> nAnds.rest]
              ELSE AndLoop(nAnds.rest, nAnds.n, AndStart, src)
         [] type.n = -2 ->
              LET nOrs == number(type.rest) IN
              IF ~nOrs.ok THEN [ok |-> FALSE, b |-> FALSE, rest |-> nOrs.rest]
              ELSE OrLoop(nOrs.rest, nOrs.n, OrStart, src)
         [] OTHER -> [ok |-> TRUE, b |-> isSourceSet(src, type.n),
                      rest |-> type.rest]

----------------------------------------------------------------------------
(* sourceExpr: the source expressions.  Results are [ok, rest, src, can]:  *)
(* src the style table and can the canSetSource flag after the call.       *)

(* const enum SourceExpression / FalsySwitchBehavior *)
SE_ternary == 0
SE_dependency == 1
SE_boolean == 2
SE_switch == 4
FSB_error == 0
FSB_unset == 1
FSB_default == 2

(* type & bit, for a bit that is a power of two (two's complement) *)
BitAnd(type, bit) == IF (type \div bit) % 2 = 1 THEN bit ELSE 0

(* sources[n] = canSetSource *)
setSourceWritingFlag(src, can, n) == IF can THEN src \cup {n} ELSE src \ {n}

(* setSource = (n) => { if (canSetSource) sources[n] = true; } *)
setSource(src, can, n) == IF can THEN src \cup {n} ELSE src

Fail(v, src, can) == [ok |-> FALSE, rest |-> v, src |-> src, can |-> can]

RECURSIVE StyleLoop(_, _, _, _, _)

(* the style loop that is not run once canSetSource is false *)
StyleLoopSkipping(v, n, src, can, taken) ==
  IF n > 0 /\ can
  THEN LET i == number(v) IN
       IF ~i.ok THEN Fail(i.rest, src, can)
       ELSE StyleLoop(i.rest, n - 1,
                      IF taken THEN setSource(src, can, i.n) ELSE src,
                      can, taken)
  ELSE [ok |-> TRUE, rest |-> v, src |-> src, can |-> can]

(* while (n-- > 0) { taken ? setSource(number(stack)) : number(stack); } *)
StyleLoop(v, n, src, can, taken) ==
  IF n > 0
  THEN LET i == number(v) IN
       IF ~i.ok THEN Fail(i.rest, src, can)
       ELSE StyleLoop(i.rest, n - 1,
                      IF taken THEN setSource(src, can, i.n) ELSE src,
                      can, taken)
  ELSE [ok |-> TRUE, rest |-> v, src |-> src, can |-> can]

(* while (numDeps-- > 0) { depIndex = number(stack);                       *)
(*                         if (!isSourceSet(depIndex)) abort(); }          *)
RECURSIVE DepLoop(_, _, _, _)
(* the dependency loop in which each dependency overwrites the flag *)
DepLoopLastOnly(v, numDeps, src, can) ==
  IF numDeps > 0
  THEN LET depIndex == number(v) IN
       IF ~depIndex.ok THEN Fail(depIndex.rest, src, can)
       ELSE DepLoop(depIndex.rest, numDeps - 1, src,
                    isSourceSet(src, depIndex.n))
  ELSE [ok |-> TRUE, rest |-> v, src |-> src, can |-> can]

DepLoop(v, numDeps, src, can) ==
  IF numDeps > 0
  THEN LET depIndex == number(v) IN
       IF ~depIndex.ok THEN Fail(depIndex.rest, src, can)
       ELSE DepLoop(depIndex.rest, numDeps - 1, src,
                    IF ~isSourceSet(src, depIndex.n) THEN FALSE ELSE can)
  ELSE [ok |-> TRUE, rest |-> v, src |-> src, can |-> can]

(* if (type & SourceExpression.dependency) { ... } *)
Dependency(v, type, src, can) ==
  IF BitAnd(type, SE_dependency) # 0
  THEN LET numDeps == number(v) IN
       IF ~numDeps.ok THEN Fail(numDeps.rest, src, can)
       ELSE DepLoop(numDeps.rest, numDeps.n, src, can)
  ELSE [ok |-> TRUE, rest |-> v, src |-> src, can |-> can]

(* the boolean read without the abort() *)
BooleanNoAbort(v, type, src, can) ==
  IF BitAnd(type, SE_boolean) # 0
  THEN LET b == bool(v) IN
       [ok |-> TRUE, rest |-> b.rest, src |-> src, can |-> can]
  ELSE [ok |-> TRUE, rest |-> v, src |-> src, can |-> can]

(* if (type & SourceExpression.boolean) { if (!bool(stack)) abort(); } *)
Boolean(v, type, src, can) ==
  IF BitAnd(type, SE_boolean) # 0
  THEN LET b == bool(v) IN
       [ok |-> TRUE, rest |-> b.rest, src |-> src,
        can |-> IF ~b.b THEN FALSE ELSE can]
  ELSE [ok |-> TRUE, rest |-> v, src |-> src, can |-> can]

(* while (nValues-- > 0) { matchValue = string(stack);                     *)
(*   nSources = number(stack); while (nSources-- > 0) { value ===          *)
(*   matchValue ? setSource(number(stack)) : number(stack); } }            *)
RECURSIVE ArmLoop(_, _, _, _, _)
(* the arm loop leaving the loop after the first arm that matches *)
ArmLoopFirstMatch(v, nValues, value, src, can) ==
  IF nValues > 0
  THEN LET matchValue == string(v) IN
       IF ~matchValue.ok THEN Fail(matchValue.rest, src, can)
       ELSE LET n == number(matchValue.rest) IN
            IF ~n.ok THEN Fail(n.rest, src, can)
            ELSE LET r == StyleLoop(n.rest, n.n, src, can,
                                    value.present /\ value.s = matchValue.s)
                 IN IF ~r.ok \/ (value.present /\ value.s = matchValue.s)
                    THEN r
                    ELSE ArmLoop(r.rest, nValues - 1, value, r.src, can)
  ELSE [ok |-> TRUE, rest |-> v, src |-> src, can |-> can]

ArmLoop(v, nValues, value, src, can) ==
  IF nValues > 0
  THEN LET matchValue == string(v) IN
       IF ~matchValue.ok THEN Fail(matchValue.rest, src, can)
       ELSE LET n == number(matchValue.rest) IN
            IF ~n.ok THEN Fail(n.rest, src, can)
            ELSE LET r == StyleLoop(n.rest, n.n, src, can,
                                    value.present /\ value.s = matchValue.s)
                 IN IF ~r.ok THEN r
                    ELSE ArmLoop(r.rest, nValues - 1, value, r.src, can)
  ELSE [ok |-> TRUE, rest |-> v, src |-> src, can |-> can]

(* the switch branch in which an unknown falsy behaviour unsets *)
SwitchUnknownUnsets(v, src, can) ==
  LET nValues == number(v) IN
  IF ~nValues.ok THEN Fail(nValues.rest, src, can)
  ELSE LET ifFalsy == number(nValues.rest) IN
  IF ~ifFalsy.ok THEN Fail(ifFalsy.rest, src, can)
  ELSE LET value == truthyString(ifFalsy.rest) IN
  IF value.present
  THEN ArmLoop(value.rest, nValues.n, value, src, can)
  ELSE CASE ifFalsy.n = FSB_default ->
              LET d == string(value.rest) IN
              IF ~d.ok THEN Fail(d.rest, src, can)
              ELSE ArmLoop(d.rest, nValues.n,
                           [present |-> TRUE, s |-> d.s], src, can)
         [] ifFalsy.n = FSB_error -> Fail(value.rest, src, can)
         [] OTHER -> ArmLoop(value.rest, nValues.n, value, src, FALSE)

(* the switch branch, lines 147-171 *)
Switch(v, src, can) ==
  LET nValues == number(v) IN
  IF ~nValues.ok THEN Fail(nValues.rest, src, can)
  ELSE LET ifFalsy == number(nValues.rest) IN
  IF ~ifFalsy.ok THEN Fail(ifFalsy.rest, src, can)
  ELSE LET value == truthyString(ifFalsy.rest) IN
  IF value.present
  THEN ArmLoop(value.rest, nValues.n, value, src, can)
  ELSE CASE ifFalsy.n = FSB_default ->
              LET d == string(value.rest) IN
              IF ~d.ok THEN Fail(d.rest, src, can)
              ELSE ArmLoop(d.rest, nValues.n,
                           [present |-> TRUE, s |-> d.s], src, can)
         [] ifFalsy.n = FSB_error -> Fail(value.rest, src, can)
         [] ifFalsy.n = FSB_unset ->
              ArmLoop(value.rest, nValues.n, value, src, FALSE)
         [] OTHER -> Fail(value.rest, src, can)

(* the ternary branch with the indexes of the branch not taken left on    *)
(* the array                                                               *)
TernarySkipping(v, src, can) ==
  LET condition == bool(v) IN
  LET nTrue == number(condition.rest) IN
  IF ~nTrue.ok THEN Fail(nTrue.rest, src, can)
  ELSE LET t == StyleLoop(nTrue.rest, IF condition.b THEN nTrue.n ELSE 0,
                          src, can, condition.b) IN
  IF ~t.ok THEN t
  ELSE LET nFalse == number(t.rest) IN
  IF ~nFalse.ok THEN Fail(nFalse.rest, t.src, can)
  ELSE StyleLoop(nFalse.rest, IF condition.b THEN 0 ELSE nFalse.n,
                 t.src, can, ~condition.b)

(* the ternary branch, lines 173-181 *)
Ternary(v, src, can) ==
  LET condition == bool(v) IN
  LET nTrue == number(condition.rest) IN
  IF ~nTrue.ok THEN Fail(nTrue.rest, src, can)
  ELSE LET t == StyleLoop(nTrue.rest, nTrue.n, src, can, condition.b) IN
  IF ~t.ok THEN t
  ELSE LET nFalse == number(t.rest) IN
  IF ~nFalse.ok THEN Fail(nFalse.rest, t.src, can)
  ELSE StyleLoop(nFalse.rest, nFalse.n, t.src, can, ~condition.b)

(* the else branch, lines 183-186 *)
Plain(v, src, can) ==
  LET n == number(v) IN
  IF ~n.ok THEN Fail(n.rest, src, can)
  ELSE StyleLoop(n.rest, n.n, src, can, TRUE)

sourceExpr(v, src, can) ==
  LET type == number(v) IN
  IF ~type.ok THEN Fail(type.rest, src, can)
  ELSE LET d == Dependency(type.rest, type.n, src, can) IN
  IF ~d.ok THEN d
  ELSE LET b == Boolean(d.rest, type.n, d.src, d.can) IN
  IF BitAnd(type.n, SE_switch) # 0 THEN Switch(b.rest, b.src, b.can)
  ELSE IF type.n = SE_ternary THEN Ternary(b.rest, b.src, b.can)
  ELSE Plain(b.rest, b.src, b.can)

----------------------------------------------------------------------------
(* The argument layouts of the header comment (lines 10-64), in the order  *)
(* in which sourceExpr and boolExpr read them.                             *)

SeqsUpTo(S, n) == UNION {[1..k -> S] : k \in 0..n}

RECURSIVE Cat(_)
Cat(ss) == IF Len(ss) = 0 THEN <<>> ELSE Head(ss) \o Cat(Tail(ss))

(* a count followed by that many style indexes *)
EncList(l) == <<Num(Len(l))>> \o [i \in 1..Len(l) |-> Num(l[i])]

(* output boolean expressions as trees *)
Ref(i) == [op |-> "ref", i |-> i, args |-> <<>>]
Not(f) == [op |-> "not", i |-> 0, args |-> <<f>>]
Or(fs) == [op |-> "or", i |-> 0, args |-> fs]
And(fs) == [op |-> "and", i |-> 0, args |-> fs]

RECURSIVE EncFormula(_)
EncFormula(f) ==
  CASE f.op = "ref" -> <<Num(f.i)>>
    [] f.op = "not" -> <<Num(-1)>> \o EncFormula(f.args[1])
    [] f.op = "or" -> <<Num(-2), Num(Len(f.args))>>
                        \o Cat([k \in 1..Len(f.args) |-> EncFormula(f.args[k])])
    [] f.op = "and" -> <<Num(-3), Num(Len(f.args))>>
                        \o Cat([k \in 1..Len(f.args) |-> EncFormula(f.args[k])])

(* an output expression: the class name, then its boolean expression *)
EncOutput(o) == <<Str(o.name)>> \o EncFormula(o.f)

TernaryExpr(c, t, f) == <<Num(SE_ternary), c>> \o EncList(t) \o EncList(f)

DepsOf(type, deps) ==
  IF BitAnd(type, SE_dependency) # 0 THEN EncList(deps) ELSE <<>>

BooleanExpr(type, deps, c, l) ==
  <<Num(type)>> \o DepsOf(type, deps) \o <<c>> \o EncList(l)

PlainExpr(type, deps, l) == <<Num(type)>> \o DepsOf(type, deps) \o EncList(l)

EncArm(a) == <<a.m>> \o EncList(a.l)

SwitchExpr(type, deps, c, ifFalsy, value, dflt, arms) ==
  <<Num(type)>> \o DepsOf(type, deps)
    \o (IF BitAnd(type, SE_boolean) # 0 THEN <<c>> ELSE <<>>)
    \o <<Num(Len(arms)), Num(ifFalsy), value>> \o dflt
    \o Cat([k \in 1..Len(arms) |-> EncArm(arms[k])])

(* a switch as the header comment lays it out for types 4 and 5, without  *)
(* a boolean element, under any type with the switch bit                   *)
BareSwitchExpr(type, deps, ifFalsy, value, arms) ==
  <<Num(type)>> \o DepsOf(type, deps)
    \o <<Num(Len(arms)), Num(ifFalsy), value>>
    \o Cat([k \in 1..Len(arms) |-> EncArm(arms[k])])

(* the ternary in the order of the header comment, lines 44-49: t, f, the  *)
(* expression, the t indexes, the f indexes                                *)
DocTernaryExpr(c, t, f) ==
  <<Num(SE_ternary), Num(Len(t)), Num(Len(f)), c>>
    \o [i \in 1..Len(t) |-> Num(t[i])] \o [i \in 1..Len(f) |-> Num(f[i])]

----------------------------------------------------------------------------
(* Bounds and the input sets drawn from them *)

MaxStyle == 1      \* style indexes 0..MaxStyle
MaxList == 2       \* style indexes in one list of a source expression
MaxArms == 2       \* arms of a switch
MaxOperands == 2   \* operands of an "or" / "and"
MaxRaw == 3        \* length of an arbitrary array handed to boolExpr
MaxSources == 2    \* source expressions of one call of _classnames
MaxOutputs == 2    \* output expressions of one call of _classnames
MaxCut == 2        \* elements missing at the end of the array

Styles == 0..MaxStyle
IdxLists == SeqsUpTo(Styles, MaxList)
ShortLists == SeqsUpTo(Styles, 1)
CondValues == {Bool(TRUE), Bool(FALSE), Num(0), Str("a")}
SwitchValues == {Undef, Str(""), Num(0), Str("0"), Str("a")}
Arms == [m : {Str("a"), Str("0")}, l : {<<0>>, <<1>>}]
ArmLists == SeqsUpTo(Arms, MaxArms)
Trailer == <<Num(9), Str("z")>>

Operators(F) ==
  {Not(f) : f \in F} \cup {Or(fs) : fs \in SeqsUpTo(F, MaxOperands)}
    \cup {And(fs) : fs \in SeqsUpTo(F, MaxOperands)}
Atoms == {Ref(i) : i \in Styles}
Level1 == Atoms \cup Operators(Atoms)
(* one operator more around a formula of Level1, which is the first or    *)
(* the last operand                                                        *)
Level2 ==
  Level1 \cup {Not(f) : f \in Level1}
    \cup UNION {{Or(<<f>> \o gs), Or(gs \o <<f>>),
                 And(<<f>> \o gs), And(gs \o <<f>>)} :
                  f \in Level1, gs \in SeqsUpTo(Atoms, MaxOperands - 1)}

RawValues ==
  {Num(-4), Num(-3), Num(-2), Num(-1), Num(0), Num(1), Num(2), Str("a")}

(* the source and output expressions of the calls of _classnames *)
DriverSources ==
  {TernaryExpr(Bool(TRUE), <<0>>, <<1>>),
   TernaryExpr(Bool(FALSE), <<0>>, <<1>>),
   BooleanExpr(2, <<>>, Bool(FALSE), <<0>>),
   BooleanExpr(3, <<0>>, Bool(TRUE), <<1>>),
   SwitchExpr(4, <<>>, Undef, FSB_unset, Str("a"), <<>>,
              <<[m |-> Str("a"), l |-> <<1>>]>>),
   SwitchExpr(4, <<>>, Undef, FSB_unset, Str(""), <<>>, <<>>)}

DriverFormulas ==
  {Ref(0), Not(Ref(1)), And(<<>>), Not(Or(<<>>)),
   Or(<<Ref(0), And(<<>>)>>), And(<<Ref(0), Ref(1)>>)}

Names == <<"a", "b", "c", "d">>

NoCall == [op |-> "none", stack |-> <<>>, sources |-> {}, can |-> TRUE,
           ok |-> TRUE, n |-> 0, supp |-> {}]
NoDecl == [kind |-> "raw", x |-> <<>>, cut |-> 0]

----------------------------------------------------------------------------
(* _classnames, lines 110-128 *)

(* classes.join(" ") *)
RECURSIVE Join(_)
(* classes.join("") *)
JoinNoSpace(cs) ==
  IF Len(cs) = 0 THEN "" ELSE cs[1] \o Join(Tail(cs))

Join(cs) ==
  IF Len(cs) = 0 THEN ""
  ELSE IF Len(cs) = 1 THEN cs[1]
  ELSE cs[1] \o " " \o Join(Tail(cs))

Init ==
  \E srcs \in SeqsUpTo(DriverSources, MaxSources),
     fs \in SeqsUpTo(DriverFormulas, MaxOutputs),
     c \in 0..(MaxCut + 1), neg \in BOOLEAN :
    LET outs == [k \in 1..Len(fs) |-> [name |-> Names[k], f |-> fs[k]]]
        Count(n) == IF n = 0 /\ neg THEN Num(-1) ELSE Num(n)
        args == <<Count(Len(srcs)), Count(Len(outs))>> \o Cat(srcs)
                  \o Cat([k \in 1..Len(outs) |-> EncOutput(outs[k])])
        cut == IF c > MaxCut THEN Len(args) - 2 ELSE c
    IN /\ cut <= Len(args)
       /\ c > MaxCut => cut > MaxCut
       /\ neg => (Len(srcs) = 0 \/ Len(outs) = 0)
       /\ stack = SubSeq(args, 1, Len(args) - cut)
       /\ decl = [kind |-> "program", x |-> [outs |-> outs], cut |-> cut]
       /\ sources = {}
       /\ classes = <<>>
       /\ nSources = 0
       /\ nOutputs = 0
       /\ canSetSource = TRUE
       /\ pc = "start"
       /\ result = ""
       /\ boolResult = FALSE
       /\ last = NoCall

(* canSetSource left as sourceExpr left it *)
ResetMissing(can) == can

(* canSetSource = true, after sourceExpr has returned (line 121) *)
Reset(can) == TRUE

(* let nSources = number(stack); let nOutputs = number(stack); *)
Start ==
  /\ pc = "start"
  /\ LET a == number(stack)
         b == number(a.rest)
     IN IF a.ok /\ b.ok
        THEN /\ nSources' = a.n
             /\ nOutputs' = b.n
             /\ stack' = b.rest
             /\ pc' = "sources"
        ELSE /\ stack' = IF a.ok THEN b.rest ELSE a.rest
             /\ pc' = "error"
             /\ UNCHANGED <<nSources, nOutputs>>
  /\ canSetSource' = TRUE
  /\ UNCHANGED <<sources, classes, result, boolResult, last, decl>>

(* while (nSources-- > 0) { sourceExpr(...); canSetSource = true; } *)
SourceStep ==
  /\ pc = "sources"
  /\ nSources > 0
  /\ LET r == sourceExpr(stack, sources, canSetSource) IN
     /\ stack' = r.rest
     /\ sources' = r.src
     /\ canSetSource' = IF r.ok THEN Reset(r.can) ELSE r.can
     /\ pc' = IF r.ok THEN "sources" ELSE "error"
     /\ last' = [op |-> "source", stack |-> stack, sources |-> sources,
                 can |-> canSetSource, ok |-> r.ok, n |-> last.n + 1,
                 supp |-> IF r.can THEN last.supp
                          ELSE last.supp \cup {last.n + 1}]
  /\ nSources' = nSources - 1
  /\ UNCHANGED <<classes, nOutputs, result, boolResult, decl>>

(* the failing test of while (nSources-- > 0) *)
SourcesDone ==
  /\ pc = "sources"
  /\ nSources <= 0
  /\ nSources' = nSources - 1
  /\ pc' = "outputs"
  /\ UNCHANGED <<stack, sources, classes, nOutputs, canSetSource, result,
                 boolResult, last, decl>>

(* while (nOutputs-- > 0) { let c = string(stack);                         *)
(*   if (boolExpr(stack, isSourceSet)) classes.push(c); }                  *)
OutputStep ==
  /\ pc = "outputs"
  /\ nOutputs > 0
  /\ LET c == string(stack)
         r == boolExpr(c.rest, sources)
     IN /\ IF c.ok /\ r.ok
           THEN /\ stack' = r.rest
                /\ classes' = IF r.b THEN Append(classes, c.s) ELSE classes
                /\ pc' = "outputs"
           ELSE /\ stack' = IF c.ok THEN r.rest ELSE c.rest
                /\ classes' = classes
                /\ pc' = "error"
        /\ last' = [op |-> "output", stack |-> stack, sources |-> sources,
                    can |-> canSetSource, ok |-> c.ok /\ r.ok,
                    n |-> last.n, supp |-> last.supp]
  /\ nOutputs' = nOutputs - 1
  /\ UNCHANGED <<sources, nSources, canSetSource, result, boolResult, decl>>

(* the failing test of while (nOutputs-- > 0); return classes.join(" ") *)
Return ==
  /\ pc = "outputs"
  /\ nOutputs <= 0
  /\ nOutputs' = nOutputs - 1
  /\ result' = Join(classes)
  /\ pc' = "done"
  /\ UNCHANGED <<stack, sources, classes, nSources, canSetSource,
                 boolResult, last, decl>>

Next == Start \/ SourceStep \/ SourcesDone \/ OutputStep \/ Return

Spec == Init /\ [][Next]_vars

----------------------------------------------------------------------------
(* One call of sourceExpr on any style table *)

(* the array holds the expression q followed by the trailer, or q with    *)
(* its last elements missing; decl keeps what was encoded and how many     *)
(* elements are missing                                                    *)
Holds(q, kind, x) ==
  \E cut \in 0..MaxCut :
    /\ cut <= Len(q)
    /\ stack = IF cut = 0 THEN q \o Trailer ELSE SubSeq(q, 1, Len(q) - cut)
    /\ decl = [kind |-> kind, x |-> x, cut |-> cut]

InitSource ==
  /\ \/ \E c \in CondValues, t \in IdxLists, f \in IdxLists :
          Holds(TernaryExpr(c, t, f), "ternary", [c |-> c, t |-> t, f |-> f])
     \/ \E c \in CondValues, l \in IdxLists :
          Holds(BooleanExpr(2, <<>>, c, l), "boolean",
                [type |-> 2, d |-> <<>>, c |-> c, l |-> l])
     \/ \E d \in IdxLists, c \in CondValues, l \in ShortLists :
          Holds(BooleanExpr(3, d, c, l), "boolean",
                [type |-> 3, d |-> d, c |-> c, l |-> l])
     \/ \E l \in IdxLists :
          Holds(PlainExpr(8, <<>>, l), "plain",
                [type |-> 8, d |-> <<>>, l |-> l])
     \/ \E d \in IdxLists, l \in ShortLists :
          Holds(PlainExpr(1, d, l), "plain",
                [type |-> 1, d |-> d, l |-> l])
     \/ \E ty \in {4, 5, 6, 7}, p \in 0..3, v \in SwitchValues,
           as \in ArmLists :
          \E d \in IF ty \in {5, 7} THEN {<<>>, <<0>>} ELSE {<<>>},
             c \in IF ty \in {6, 7} THEN {Bool(TRUE), Bool(FALSE)} ELSE {Undef},
             df \in IF p = FSB_default THEN {<<>>, <<Str("a")>>} ELSE {<<>>} :
            Holds(SwitchExpr(ty, d, c, p, v, df, as), "switch",
                  [type |-> ty, d |-> d, c |-> c, p |-> p, v |-> v,
                   df |-> df, as |-> as])
     \/ \E ty \in {6, 7}, p \in {FSB_error, FSB_unset}, v \in SwitchValues,
           as \in ArmLists :
          \E d \in IF ty = 7 THEN {<<>>, <<0>>} ELSE {<<>>} :
            Holds(BareSwitchExpr(ty, d, p, v, as), "bareswitch",
                  [type |-> ty, d |-> d, p |-> p, v |-> v, df |-> <<>>,
                   as |-> as])
     \/ \E c \in CondValues, t \in IdxLists, f \in ShortLists :
          Holds(DocTernaryExpr(c, t, f), "docternary",
                [c |-> c, t |-> t, f |-> f])
  /\ sources \in SUBSET Styles
  /\ canSetSource = TRUE
  /\ classes = <<>>
  /\ nSources = 0
  /\ nOutputs = 0
  /\ pc = "sourceExpr"
  /\ result = ""
  /\ boolResult = FALSE
  /\ last = NoCall

CallSourceExpr ==
  /\ pc = "sourceExpr"
  /\ LET r == sourceExpr(stack, sources, canSetSource) IN
     /\ stack' = r.rest
     /\ sources' = r.src
     /\ canSetSource' = r.can
     /\ pc' = IF r.ok THEN "returned" ELSE "error"
     /\ last' = [op |-> "source", stack |-> stack, sources |-> sources,
                 can |-> canSetSource, ok |-> r.ok, n |-> 1,
                 supp |-> IF r.can THEN {} ELSE {1}]
  /\ UNCHANGED <<classes, nSources, nOutputs, result, boolResult, decl>>

NextSource == CallSourceExpr

SpecSource == InitSource /\ [][NextSource]_vars

----------------------------------------------------------------------------
(* One call of boolExpr on any style table *)

InitBool ==
  /\ \/ \E f \in Level2 :
          /\ stack = EncFormula(f) \o Trailer
          /\ decl = [kind |-> "formula", x |-> [f |-> f], cut |-> 0]
     \/ /\ stack \in SeqsUpTo(RawValues, MaxRaw)
        /\ decl = NoDecl
  /\ sources \in SUBSET Styles
  /\ canSetSource = TRUE
  /\ classes = <<>>
  /\ nSources = 0
  /\ nOutputs = 0
  /\ pc = "boolExpr"
  /\ result = ""
  /\ boolResult = FALSE
  /\ last = NoCall

CallBoolExpr ==
  /\ pc = "boolExpr"
  /\ LET r == boolExpr(stack, sources) IN
     /\ stack' = r.rest
     /\ boolResult' = r.b
     /\ pc' = IF r.ok THEN "returned" ELSE "error"
     /\ last' = [op |-> "bool", stack |-> stack, sources |-> sources,
                 can |-> canSetSource, ok |-> r.ok, n |-> 0, supp |-> {}]
  /\ UNCHANGED <<sources, classes, nSources, nOutputs, canSetSource, result,
                 decl>>

NextBool == CallBoolExpr

SpecBool == InitBool /\ [][NextBool]_vars

----------------------------------------------------------------------------
(* Reference semantics of the declared expressions, used by the           *)
(* properties below                                                        *)

RECURSIVE RefEval(_, _)
RefEval(f, src) ==
  CASE f.op = "ref" -> f.i \in src
    [] f.op = "not" -> ~RefEval(f.args[1], src)
    [] f.op = "or" -> \E k \in 1..Len(f.args) : RefEval(f.args[k], src)
    [] f.op = "and" -> \A k \in 1..Len(f.args) : RefEval(f.args[k], src)

RECURSIVE NoRefs(_)
NoRefs(f) ==
  /\ f.op # "ref"
  /\ \A k \in 1..Len(f.args) : NoRefs(f.args[k])

Range(q) == {q[i] : i \in 1..Len(q)}

(* the names of a list of outputs, in declaration order *)
NamesOf(outs) == [k \in 1..Len(outs) |-> outs[k].name]

(* the elements of a list separated by single spaces *)
RECURSIVE SpaceSeparated(_)
SpaceSeparated(q) ==
  IF Len(q) = 0 THEN ""
  ELSE IF Len(q) = 1 THEN q[1]
  ELSE SpaceSeparated(SubSeq(q, 1, Len(q) - 1)) \o " " \o q[Len(q)]

Consumed == Len(last.stack) - Len(stack)

Whole == decl.cut = 0

----------------------------------------------------------------------------
(* C1: when _classnames returns, the string is the names of the declared  *)
(* outputs whose formula is true of the style table the source pass left,  *)
(* in declaration order, joined by single spaces ("" when there is none).  *)
C1_Result ==
  pc = "done" =>
    LET IsTrue(o) == RefEval(o.f, sources) IN
    result = SpaceSeparated(NamesOf(SelectSeq(decl.x.outs, IsTrue)))

C1_Witness ==
  /\ pc = "done"
  /\ Len(decl.x.outs) = 2
  /\ sources # {}
  /\ result = "a b"

----------------------------------------------------------------------------
(* C2: canSetSource is true whenever a source expression starts decoding, *)
(* so a suppression inside one source expression never reaches the next.   *)
C2_SuppressionScoped ==
  /\ (pc = "sources" => canSetSource)
  /\ (last.op = "source" => last.can)

C2_Witness ==
  /\ last.op = "source"
  /\ last.ok
  /\ (last.n - 1) \in last.supp
  /\ last.n \notin last.supp
  /\ sources # last.sources

----------------------------------------------------------------------------
(* Whether the dependencies and the boolean of a declared expression let  *)
(* it set styles, given the style table it started from                    *)
Enabled(x, src) ==
  /\ (BitAnd(x.type, SE_dependency) # 0 => Range(x.d) \subseteq src)
  /\ (BitAnd(x.type, SE_boolean) # 0 => Truthy(x.c))

(* the style indexes of the arms of a switch whose match string is s *)
ArmStyles(as, s) ==
  UNION {Range(as[k].l) : k \in {j \in 1..Len(as) : as[j].m = Str(s)}}

C4_ZeroDiscriminant ==
  (decl.kind = "switch" /\ Whole /\ last.op = "source") =>
    /\ (decl.x.v = Num(0) /\ decl.x.df = <<>>) =>
         /\ last.ok
         /\ stack = Trailer
         /\ sources = IF Enabled(decl.x, last.sources)
                      THEN last.sources \cup ArmStyles(decl.x.as, "0")
                      ELSE last.sources
    /\ decl.x.v = Str("") =>
         /\ decl.x.p = FSB_error => ~last.ok
         /\ (decl.x.p = FSB_unset /\ decl.x.df = <<>>) =>
              last.ok /\ stack = Trailer /\ sources = last.sources
         /\ (decl.x.p = FSB_default /\ decl.x.df # <<>>) =>
              /\ last.ok
              /\ stack = Trailer
              /\ sources = IF Enabled(decl.x, last.sources)
                           THEN last.sources \cup
                                  ArmStyles(decl.x.as, decl.x.df[1].s)
                           ELSE last.sources

C4_Witness ==
  /\ decl.kind = "switch" /\ Whole /\ pc = "returned"
  /\ decl.x.v = Num(0)
  /\ decl.x.p = FSB_error
  /\ \E k \in 1..Len(decl.x.as) :
       decl.x.as[k].m = Str("0") /\ decl.x.as[k].l = <<1>>
  /\ 1 \notin last.sources
  /\ 1 \in sources

(* C5: an array that ends before its grammar is complete never yields a   *)
(* result string.                                                          *)
C5_UnderflowFails == decl.cut > 0 => pc # "done"

(* C6: a boolean expression whose tag is negative and not -1, -2 or -3    *)
(* fails.                                                                  *)
C6_UnknownOperatorFails ==
  (/\ last.op = "bool"
   /\ Len(last.stack) > 0
   /\ Head(last.stack).k = "num"
   /\ Head(last.stack).n < -3) => pc = "error"

(* C7: boolExpr returns the value the declared formula has under the      *)
(* usual semantics: an index is true iff it is in the style table, "not"   *)
(* negates, "or" of n operands is their disjunction (false for none),      *)
(* "and" their conjunction (true for none).                                *)
C7_ReferenceSemantics ==
  (decl.kind = "formula" /\ last.op = "bool") =>
    /\ last.ok
    /\ boolResult = RefEval(decl.x.f, sources)

C7_Witness ==
  /\ decl.kind = "formula" /\ pc = "returned"
  /\ decl.x.f = Not(Not(Ref(0)))
  /\ boolResult

(* C8: "or" and "and" read all their operands: a declared formula takes   *)
(* as many elements off the array as its encoding has, and any array       *)
(* loses the same elements whatever the style table holds.                 *)
C8_NoShortCircuit ==
  last.op = "bool" =>
    /\ decl.kind = "formula" => Consumed = Len(EncFormula(decl.x.f))
    /\ \A S \in SUBSET Styles :
         /\ boolExpr(last.stack, S).rest = stack
         /\ boolExpr(last.stack, S).ok = last.ok

C8_Witness ==
  /\ decl.kind = "formula" /\ pc = "returned"
  /\ decl.x.f = And(<<Ref(0), Ref(1)>>)
  /\ 0 \notin sources
  /\ 1 \in sources
  /\ stack = Trailer

AllConstant == \A k \in 1..Len(decl.x.outs) : NoRefs(decl.x.outs[k].f)

(* C9, as stated: when no output formula references a style index, the    *)
(* result is the names whose formula is the empty "and".                   *)
C9_OnlyEmptyAnd ==
  (pc = "done" /\ AllConstant) =>
    LET IsEmptyAnd(o) == o.f = And(<<>>) IN
    result = SpaceSeparated(NamesOf(SelectSeq(decl.x.outs, IsEmptyAnd)))

(* C9, amended: when no output formula references a style index, the      *)
(* result is the names whose formula is true with every style unset; the   *)
(* names guarded by an empty "and" are all among them.                     *)
C9_ConstantFormulas ==
  (pc = "done" /\ AllConstant) =>
    LET IsTrue(o) == RefEval(o.f, {}) IN
    /\ result = SpaceSeparated(NamesOf(SelectSeq(decl.x.outs, IsTrue)))
    /\ \A k \in 1..Len(decl.x.outs) :
         decl.x.outs[k].f = And(<<>>) => decl.x.outs[k].name \in Range(classes)

C9_Witness ==
  /\ pc = "done"
  /\ Len(decl.x.outs) = 2
  /\ decl.x.outs[1].f = Not(Or(<<>>))
  /\ decl.x.outs[2].f = And(<<>>)
  /\ sources # {}
  /\ result = "a b"

(* C10: a boolean source expression (type 2, or 3 after its dependency    *)
(* list) reads a boolean, a count S and S indexes; it sets all S indexes   *)
(* when the boolean is true and no dependency failed, leaves the style     *)
(* table as it was otherwise, and removes the S indexes either way.        *)
C10_Boolean ==
  (decl.kind = "boolean" /\ Whole /\ last.op = "source") =>
    /\ last.ok
    /\ stack = Trailer
    /\ Consumed = Len(BooleanExpr(decl.x.type, decl.x.d, decl.x.c, decl.x.l))
    /\ sources = IF Enabled(decl.x, last.sources)
                 THEN last.sources \cup Range(decl.x.l)
                 ELSE last.sources

C10_Witness ==
  /\ decl.kind = "boolean" /\ Whole /\ pc = "returned"
  /\ decl.x.type = 2
  /\ decl.x.c = Bool(FALSE)
  /\ Len(decl.x.l) = 2
  /\ sources = last.sources
  /\ Range(decl.x.l) \cap sources = {}
  /\ stack = Trailer

----------------------------------------------------------------------------
HasDependency ==
  /\ decl.kind \in {"boolean", "plain", "switch"}
  /\ BitAnd(decl.x.type, SE_dependency) # 0

(* a declared switch whose elements are where sourceExpr reads them: the   *)
(* default string is there exactly when it is read                         *)
SwitchAligned ==
  IF decl.x.v \in {Undef, Str("")}
  THEN \/ decl.x.p = FSB_unset /\ decl.x.df = <<>>
       \/ decl.x.p = FSB_default /\ decl.x.df # <<>>
  ELSE decl.x.df = <<>>

(* C11: an expression of a type with the dependency bit sets a style only *)
(* if each of its D dependencies was true in the style table at its        *)
(* start; if one was not, the table is left as it was, and the D indexes   *)
(* and the payload are removed from the array all the same.                *)
C11_Dependencies ==
  (HasDependency /\ Whole /\ last.op = "source") =>
    /\ ~(Range(decl.x.d) \subseteq last.sources) => sources = last.sources
    /\ (decl.kind = "switch" => SwitchAligned) =>
         /\ last.ok
         /\ stack = Trailer

C11_Witness ==
  /\ decl.kind = "boolean" /\ Whole /\ pc = "returned"
  /\ decl.x.type = 3
  /\ decl.x.d = <<0, 1>>
  /\ last.sources = {0}
  /\ Truthy(decl.x.c)
  /\ decl.x.l = <<1>>
  /\ sources = {0}
  /\ stack = Trailer

----------------------------------------------------------------------------
DeclaredSwitch ==
  SwitchExpr(decl.x.type, decl.x.d, decl.x.c, decl.x.p, decl.x.v, decl.x.df,
             decl.x.as)

(* the style table a declared switch leaves when its discriminant is s *)
AfterSwitch(s) ==
  IF Enabled(decl.x, last.sources)
  THEN last.sources \cup ArmStyles(decl.x.as, s)
  ELSE last.sources

----------------------------------------------------------------------------
UnknownPolicy ==
  /\ decl.kind = "switch" /\ Whole /\ last.op = "source"
  /\ decl.x.p \notin {FSB_error, FSB_unset, FSB_default}

(* C13, as stated: a switch whose falsy-policy numeral is not 0, 1 or 2   *)
(* fails.                                                                  *)
C13_UnknownPolicyFails == UnknownPolicy => pc = "error"

(* C13, amended: a switch whose falsy-policy numeral is not 0, 1 or 2     *)
(* fails when its discriminant is absent, having set no style; when the    *)
(* discriminant is present the numeral is not looked at and the switch     *)
(* is decoded.                                                             *)
C13_UnknownPolicyWhenAbsent ==
  UnknownPolicy =>
    IF decl.x.v \in {Undef, Str("")}
    THEN pc = "error" /\ sources = last.sources
    ELSE pc = "returned" /\ stack = Trailer

C13_Witness ==
  /\ UnknownPolicy
  /\ decl.x.v = Undef
  /\ Len(decl.x.as) = 2
  /\ Enabled(decl.x, last.sources)
  /\ pc = "error"

----------------------------------------------------------------------------
(* C14: a source expression whose type tag is none of 0, 1, 2, 3, 4, 5    *)
(* fails.                                                                  *)
C14_UnknownTypeFails ==
  (/\ last.op = "source"
   /\ Len(last.stack) > 0
   /\ Head(last.stack).k = "num"
   /\ Head(last.stack).n \notin 0..5) => pc = "error"

(* C15: under any type with the switch bit the element after the type tag *)
(* and the dependency list is the arm count: a switch laid out without a   *)
(* boolean element is decoded as a switch.                                 *)
C15_SwitchReadsNoBoolean ==
  (/\ \/ decl.kind = "bareswitch"
      \/ decl.kind = "switch" /\ decl.x.type \in {4, 5}
   /\ Whole /\ last.op = "source"
   /\ decl.x.v \notin {Undef, Str("")}
   /\ decl.x.df = <<>>) =>
    /\ pc = "returned"
    /\ stack = Trailer
    /\ sources = IF Range(decl.x.d) \subseteq last.sources
                 THEN last.sources \cup
                        ArmStyles(decl.x.as, IF decl.x.v.k = "str"
                                             THEN decl.x.v.s ELSE "0")
                 ELSE last.sources

(* C17: a ternary laid out as the header comment documents it (t, f, the  *)
(* expression, the t indexes, the f indexes) sets the t indexes when the   *)
(* expression is truthy and the f indexes otherwise.                       *)
C17_DocumentedTernary ==
  (decl.kind = "docternary" /\ Whole /\ last.op = "source") =>
    /\ pc = "returned"
    /\ sources = last.sources \cup
         Range(IF Truthy(decl.x.c) THEN decl.x.t ELSE decl.x.f)
    /\ stack = Trailer

----------------------------------------------------------------------------
(* C16: suppression does not move the cursor: a source expression run on  *)
(* the same array against the empty style table, where every dependency    *)
(* fails, ends (or fails) with the same remaining array as against any     *)
(* other style table.                                                      *)
C16_AlignmentIndependent ==
  last.op = "source" =>
    LET r == sourceExpr(last.stack, {}, TRUE) IN
    /\ r.rest = stack
    /\ r.ok = last.ok

C16_Witness ==
  /\ HasDependency /\ Whole /\ pc = "returned"
  /\ decl.x.d # <<>>
  /\ Range(decl.x.d) \subseteq last.sources
  /\ sources # last.sources
  /\ ~sourceExpr(last.stack, {}, TRUE).can
  /\ stack = Trailer

----------------------------------------------------------------------------
(* C18: the style table only grows: no step of _classnames takes an index *)
(* out of it, suppressed source expressions included, and the steps of     *)
(* the output pass leave it as it is.                                      *)
C18_Monotone ==
  [][/\ sources \subseteq sources'
     /\ pc = "outputs" => sources' = sources]_vars

C18_Witness ==
  /\ pc = "done"
  /\ 1 \notin last.supp
  /\ 2 \in last.supp
  /\ 0 \in sources
  /\ result = "a"

----------------------------------------------------------------------------
(* The phase of _classnames plus the length of what is left of the array: *)
(* a natural number                                                        *)
Rank ==
  Len(stack) + (CASE pc = "start" -> 3
                  [] pc = "sources" -> 2
                  [] pc = "outputs" -> 1
                  [] OTHER -> 0)

(* The place of the first count of a source expression of type t *)
FirstCount(t) ==
  IF BitAnd(t, SE_dependency) # 0 THEN 2
  ELSE IF BitAnd(t, SE_boolean) # 0 \/ t = SE_ternary THEN 3
  ELSE 2

(* the latest call started with a count larger than what followed it *)
Overshoot ==
  \/ /\ last.op = "source"
     /\ Len(last.stack) > 0
     /\ Head(last.stack).k = "num"
     /\ LET at == FirstCount(Head(last.stack).n) IN
        /\ Len(last.stack) >= at
        /\ last.stack[at].k = "num"
        /\ last.stack[at].n > Len(last.stack) - at
  \/ /\ last.op = "output"
     /\ Len(last.stack) >= 3
     /\ last.stack[2] \in {Num(-2), Num(-3)}
     /\ last.stack[3].k = "num"
     /\ last.stack[3].n > Len(last.stack) - 3

(* every counted loop given the count n and followed by the present array *)
(* leaves the array and the style table alone                              *)
NoIteration(n) ==
  /\ boolExpr(<<Num(-2), Num(n)>> \o stack, sources)
       = [ok |-> TRUE, b |-> FALSE, rest |-> stack]
  /\ boolExpr(<<Num(-3), Num(n)>> \o stack, sources)
       = [ok |-> TRUE, b |-> TRUE, rest |-> stack]
  /\ sourceExpr(<<Num(0), Bool(TRUE), Num(n), Num(n)>> \o stack, sources, TRUE)
       = [ok |-> TRUE, rest |-> stack, src |-> sources, can |-> TRUE]
  /\ sourceExpr(<<Num(1), Num(n), Num(n)>> \o stack, sources, TRUE)
       = [ok |-> TRUE, rest |-> stack, src |-> sources, can |-> TRUE]
  /\ sourceExpr(<<Num(4), Num(n), Num(1), Str("a")>> \o stack, sources, TRUE)
       = [ok |-> TRUE, rest |-> stack, src |-> sources, can |-> TRUE]

(* C19: _classnames always ends, with a string or with an error: every    *)
(* step makes the rank, a natural number, smaller.  An iteration of the    *)
(* source or output loop that does not fail removes an element; a loop     *)
(* whose count exceeds what is left of the array ends in an error; a       *)
(* count of zero or less iterates nothing.                                 *)
C19_Terminates ==
  /\ [][/\ Rank' < Rank
        /\ (pc' = pc) => Len(stack') < Len(stack)
        /\ (pc = "sources" /\ nSources > Len(stack)) =>
             (pc' = "error" \/ (pc' = "sources" /\ nSources' > Len(stack')))
        /\ (pc = "outputs" /\ nOutputs > Len(stack)) =>
             (pc' = "error" \/ (pc' = "outputs" /\ nOutputs' > Len(stack')))
        /\ (pc = "sources" /\ nSources <= 0) =>
             (pc' = "outputs" /\ stack' = stack /\ sources' = sources)
        /\ (pc = "outputs" /\ nOutputs <= 0) =>
             (pc' = "done" /\ stack' = stack /\ classes' = classes)]_vars
  /\ [](Overshoot => ~last.ok /\ pc = "error")
  /\ [](NoIteration(0) /\ NoIteration(-1))

C19_Witness ==
  /\ pc = "error"
  /\ last.op = "output"
  /\ last.n > 0
  /\ Len(last.stack) = 4
  /\ last.stack[2] = Num(-3)
  /\ last.stack[3] = Num(2)
  /\ stack = <<>>

====
